---------------------------- MODULE Spec2Model ----------------------------
(***************************************************************************)
(* A model of utils/mfa.py: class MFA, a Mixture of Factor Analyzers.      *)
(*                                                                         *)
(* Numbers.  Every real number of the program is an exact rational <<n,d>> *)
(* (d > 0, lowest terms), so that the Woodbury algebra is computed exactly *)
(* as the code computes it.  np.log is transcendental; a logarithm is kept *)
(* symbolically by its argument ([exp |-> x] stands for log(x)), and the   *)
(* sum of two logarithms is the logarithm of the product.  NonFinite, the *)
(* rational 0/0, stands for the nan / inf values numpy produces (with a    *)
(* warning, not an error) for log or sqrt of a negative number and for     *)
(* division by zero; it propagates through every arithmetic operation.     *)
(* Mixing weights are integers in units of 2^-20.                          *)
(***************************************************************************)
EXTENDS Integers, Sequences, FiniteSets, TLC

\* ------------------------------------------------------------------ bounds
MaxK == 2
MaxDim == 2
MaxN == 2

\* ------------------------------------------------------- program constants
max_l == 8
\* Weights are binary fractions: the float 1.0 is ONE units of 2^-20.
ONE == 1048576
\* The float 1e-5 is 1 / EpsInv. It is no multiple of the unit, as the double
\* nearest to 1e-5 (an odd multiple of 2^-69) is none of 2^-53, the spacing
\* of the values sp - 1.0 takes: no sum deviates from 1.0 by exactly 1e-5.
EpsInv == 100000
PoolSize == 8

NonFinite == <<0, 0>>
\* a dict key that is not present / a value not yet assigned
Absent == <<>>

\* --------------------------------------------------------------- rationals
Abs(x) == IF x < 0 THEN -x ELSE x

RECURSIVE GCD(_, _)
GCD(a, b) == IF b = 0 THEN a ELSE GCD(b, a % b)

RNorm(n, d) ==
    LET g == GCD(Abs(n), Abs(d))
        s == IF d < 0 THEN -1 ELSE 1
    IN  <<(s * n) \div g, (s * d) \div g>>

Rat(i) == <<i, 1>>
IsFinite(p) == p[2] # 0
RAdd(p, q) ==
    IF IsFinite(p) /\ IsFinite(q) THEN RNorm(p[1] * q[2] + q[1] * p[2], p[2] * q[2])
    ELSE NonFinite
RNeg(p) == IF IsFinite(p) THEN <<-p[1], p[2]>> ELSE NonFinite
RSub(p, q) == RAdd(p, RNeg(q))
RMul(p, q) ==
    IF IsFinite(p) /\ IsFinite(q) THEN RNorm(p[1] * q[1], p[2] * q[2]) ELSE NonFinite
\* x ** -1.0
RInv(p) == IF IsFinite(p) /\ p[1] # 0 THEN RNorm(p[2], p[1]) ELSE NonFinite
RPos(p) == IsFinite(p) /\ p[1] > 0

RECURSIVE RSum(_)
RSum(s) == IF Len(s) = 0 THEN Rat(0) ELSE RAdd(s[1], RSum(Tail(s)))

RECURSIVE ISum(_)
ISum(s) == IF Len(s) = 0 THEN 0 ELSE s[1] + ISum(Tail(s))

\* ---------------------------------------------------------------- matrices
\* A matrix is a sequence of rows; shape (r, c) with r >= 1 and c >= 1.
\* Strict(f) is f as an explicit sequence (evaluated once, not on each use).
Strict(f) == SubSeq(f, 1, Len(f))
Rows(M) == Len(M)
Cols(M) == Len(M[1])
RatMat(M) == Strict([i \in 1..Rows(M) |-> Strict([j \in 1..Cols(M) |-> Rat(M[i][j])])])
Eye(n) == Strict([i \in 1..n |-> Strict([j \in 1..n |-> IF i = j THEN Rat(1) ELSE Rat(0)])])
Transpose(M) == Strict([j \in 1..Cols(M) |-> Strict([i \in 1..Rows(M) |-> M[i][j]])])
MatAdd(P, Q) ==
    Strict([i \in 1..Rows(P) |-> Strict([j \in 1..Cols(P) |-> RAdd(P[i][j], Q[i][j])])])
MatSub(P, Q) ==
    Strict([i \in 1..Rows(P) |-> Strict([j \in 1..Cols(P) |-> RSub(P[i][j], Q[i][j])])])
\* P @ Q
MatMul(P, Q) ==
    Strict([i \in 1..Rows(P) |-> Strict([j \in 1..Cols(Q) |->
        RSum(Strict([k \in 1..Rows(Q) |-> RMul(P[i][k], Q[k][j])]))])])
\* P * v.reshape([d, 1]): row i of P is multiplied by v[i]
ScaleRows(P, v) ==
    Strict([i \in 1..Rows(P) |-> Strict([j \in 1..Cols(P) |-> RMul(P[i][j], v[i])])])
\* P * v.T (v a column): column j of P is multiplied by v[j]
ScaleCols(P, v) ==
    Strict([i \in 1..Rows(P) |-> Strict([j \in 1..Cols(P) |-> RMul(P[i][j], v[j])])])

DropAt(s, k) == Strict([i \in 1..(Len(s) - 1) |-> IF i < k THEN s[i] ELSE s[i + 1]])
Minor(M, r, c) == Strict([i \in 1..(Rows(M) - 1) |-> DropAt(DropAt(M, r)[i], c)])

\* np.linalg.det, by expansion along the first row
RECURSIVE Det(_)
Det(M) ==
    IF Len(M) = 0 THEN Rat(1)
    ELSE RSum(Strict([j \in 1..Len(M) |->
            RMul(IF j % 2 = 1 THEN M[1][j] ELSE RNeg(M[1][j]), Det(Minor(M, 1, j)))]))

\* np.linalg.inv of a matrix that is not exactly singular: the adjugate over
\* the determinant
Adjugate(M, i, j) == RMul(IF (i + j) % 2 = 0 THEN Rat(1) ELSE Rat(-1), Det(Minor(M, j, i)))
Scaled(M, idt) ==
    Strict([i \in 1..Rows(M) |-> Strict([j \in 1..Rows(M) |-> RMul(idt, Adjugate(M, i, j))])])
MatInv(M) == Scaled(M, RInv(Det(M)))

\* -------------------------------------------------------------- logarithms
\* np.log(x): [exp |-> x] stands for log(x); log of a negative number is nan
\* and log(0) is -inf, both returned with a warning only.
LogOf(x) == [exp |-> IF RPos(x) THEN x ELSE NonFinite]
\* a + b of two logarithms
LogPlus(a, b) == [exp |-> RMul(a.exp, b.exp)]

RECURSIVE SumLog(_)
\* np.sum(np.log(v))
SumLog(v) ==
    IF Len(v) = 0 THEN [exp |-> Rat(1)]
    ELSE LogPlus(LogOf(Rat(v[1])), SumLog(Tail(v)))

\* np.sqrt(x) of an integer that is a perfect square or negative
Sqrt(x) == IF x < 0 THEN NonFinite ELSE Rat(CHOOSE r \in 0..x : r * r = x)

\* -------------------------------------------------------------- components
\* A component is the dict {'D', 'A', 'mu', 'pi'} plus, once cached, the keys
\* 'inv_sigma1', 'inv_sigma2', 'c_factor'.  A cache field is Absent (the key
\* is not in the dict) or holds its value; c_factor, when present, is the
\* one-element sequence of its value.
Component(A, D, mu, pi) ==
    [A |-> A, D |-> D, mu |-> mu, pi |-> pi,
     inv_sigma1 |-> Absent, inv_sigma2 |-> Absent, c_factor |-> Absent]

\* invD = np.power(c['D'], -1.0).reshape([d, 1])
invD(D) == Strict([i \in 1..Len(D) |-> RInv(Rat(D[i]))])

\* A.T @ (A * invD), the identity left out
IPiDPNoEye(A, iD) ==
    MatMul(Transpose(RatMat(A)), ScaleRows(RatMat(A), iD))

\* IPiDP = np.eye(l) + c['A'].T @ (c['A'] * invD)
IPiDP(A, iD) ==
    MatAdd(Eye(Cols(A)), MatMul(Transpose(RatMat(A)), ScaleRows(RatMat(A), iD)))

\* c['A'].T * invD.T
InvSigma1(A, iD) == ScaleCols(Transpose(RatMat(A)), iD)

\* np.linalg.inv raises LinAlgError on an exactly singular matrix
InvRaises(M) == Det(M) = Rat(0)

\* (np.linalg.inv(IPiDP) @ c['A'].T * invD.T).T
InvSigma2(A, iD, M) ==
    Transpose(ScaleCols(MatMul(MatInv(M), Transpose(RatMat(A))), iD))

\* log_dSigma = np.log(np.linalg.det(IPiDP)) + np.sum(np.log(c['D']))
LogDSigma(M, D) == LogPlus(LogOf(Det(M)), SumLog(D))

\* d*np.log(2*np.pi) + log_dSigma, kept as the pair (d, log_dSigma)
CFactor(d, log_dSigma) == [twopi |-> d, log |-> log_dSigma]

\* X_c = X - c['mu']
Center(X, mu) ==
    Strict([r \in 1..Rows(X) |-> Strict([i \in 1..Len(mu) |-> Rat(X[r][i] - mu[i])])])

\* m_d = np.sum(X_c * (X_c * invD.T - (X_c @ inv_sigma2) @ inv_sigma1), axis=1)
MD(Xc, iD, is1, is2) ==
    LET Q == MatSub(ScaleCols(Xc, iD), MatMul(MatMul(Xc, is2), is1))
    IN  Strict([r \in 1..Rows(Xc) |->
            RSum(Strict([i \in 1..Cols(Xc) |-> RMul(Xc[r][i], Q[r][i])]))])

\* A log-probability log(w) - 0.5*(m + twopi*log(2*pi) + log(g)) is the record
\* of its four parts; a nan or inf result is the one record NaNValue.
NaNValue == [w |-> 0, m |-> NonFinite, twopi |-> 0, g |-> NonFinite]
LLValue(w, m, cf) ==
    IF IsFinite(m) /\ IsFinite(cf.log.exp)
    THEN [w |-> w, m |-> m, twopi |-> cf.twopi, g |-> cf.log.exp]
    ELSE NaNValue

\* -0.5 * (m_d + c_factor), one entry per row
HalfNeg(md, cf) == Strict([r \in 1..Len(md) |-> LLValue(ONE, md[r], cf)])

\* np.log(pi) + v, entry by entry (pi > 0)
AddLogPi(pi, v) ==
    Strict([r \in 1..Len(v) |->
        IF v[r] = NaNValue THEN NaNValue ELSE [v[r] EXCEPT !.w = pi]])

\* ---------------------------------------------------- per-component likelihood
NoErr == "ok"

\* a cache test that never finds the cache
CacheMissAlways(c) == TRUE

\* 'c_factor' not in c.keys()
CacheMiss(c) == c.c_factor = Absent

\* ------------------------------------------------------------------ inputs
\* An input array: its shape and its elements in row-major order.
Size(shape) == IF Len(shape) = 0 THEN 1
               ELSE IF Len(shape) = 1 THEN shape[1]
               ELSE IF Len(shape) = 2 THEN shape[1] * shape[2]
               ELSE shape[1] * shape[2] * shape[3]
XData(sz) == Strict([i \in 1..sz |-> (i % 4) - 1])
MkInput(shape) == [shape |-> shape, data |-> XData(Size(shape))]
\* np.reshape(samples, [n, d])
Reshape(data, n, d) ==
    Strict([r \in 1..n |-> Strict([i \in 1..d |-> data[(r - 1) * d + i]])])

\* -------------------------------------------------------- parameter draws
\* The outcomes of np.random (and the contents of pickle files) are drawn from
\* small families indexed by a seed.
Seeds == {0, 1}
AMat(d, l, s) ==
    Strict([i \in 1..d |-> Strict([j \in 1..l |->
        IF i = j THEN 1 + s ELSE IF (i + j) % 2 = 1 THEN -s ELSE s])])
\* strictly positive variances, as np.random.uniform(noise/10, noise) gives
DPos(d, s) == [i \in 1..d |-> IF (i + s) % 2 = 0 THEN 1 ELSE 4]
\* a file whose first variance is negative, or zero
DKinds == {"pos", "neg", "zero"}
DOf(d, s, kind) ==
    [i \in 1..d |-> IF i = 1 /\ kind = "neg" THEN -1
                    ELSE IF i = 1 /\ kind = "zero" THEN 0
                    ELSE DPos(d, s)[i]]
MuVec(d, s) == [i \in 1..d |-> (i + s) % 2]
\* normalised weights, the largest first
PiFirst(K) == [k \in 0..(K - 1) |-> IF k = 0 THEN ONE - (K - 1) * 100000 ELSE 100000]

\* the parameter values and input batches of dimension d that occur
Dims == 1..MaxDim
AFam(d) == {AMat(d, l, s) : l \in 1..d, s \in Seeds}
DFam(d) == {DOf(d, s, kind) : s \in Seeds, kind \in DKinds}
MuFam(d) == {MuVec(d, s) : s \in Seeds}
XFam(d) == {Reshape(XData(n * d), n, d) : n \in 1..MaxN}

\* a mixture of K components of dimension d and rank l; the last component's
\* variances are of the given kind
Mixture(K, d, l, s, kind, pi) ==
    [k \in 0..(K - 1) |->
        Component(AMat(d, l, (s + k) % 2),
                  DOf(d, (s + k) % 2, IF k = K - 1 THEN kind ELSE "pos"),
                  MuVec(d, (s + k) % 2), pi[k])]

\* Lines 132-143 and 101-111: the values derived from A and D alone
\* (raises: np.linalg.inv raised, after inv_sigma1 was computed)
DerivedFrom(A, D, iD, M, is1) ==
    IF InvRaises(M)
    THEN [raises |-> TRUE, inv_sigma1 |-> is1,
          inv_sigma2 |-> Absent, c_factor |-> Absent]
    ELSE [raises |-> FALSE, inv_sigma1 |-> is1,
          inv_sigma2 |-> InvSigma2(A, iD, M),
          c_factor |-> <<CFactor(Len(D), LogDSigma(M, D))>>]
DerivedWith(A, D, iD) == DerivedFrom(A, D, iD, IPiDP(A, iD), InvSigma1(A, iD))
Derived(A, D) == DerivedWith(A, D, invD(D))

\* Derived, tabulated over the parameter values that occur (the table is
\* computed once; a value outside it is computed directly)
Tabulate(f) == f @@ [x \in {} |-> x]
ADKeys == UNION {AFam(d) \X DFam(d) : d \in Dims}
DerivedTable == Tabulate([p \in ADKeys |-> Derived(p[1], p[2])])
DerivedOf(A, D) ==
    IF <<A, D>> \in DOMAIN DerivedTable THEN DerivedTable[<<A, D>>] ELSE Derived(A, D)

\* m_d from the input, the mean, the variances and the two cached factors
QuadForm(X, mu, D, is1, is2) == MD(Center(X, mu), invD(D), is1, is2)
QuadKeys ==
    UNION {{<<X, mu, D, DerivedTable[p].inv_sigma1, DerivedTable[p].inv_sigma2>> :
              X \in XFam(d), mu \in MuFam(d), D \in DFam(d),
              p \in {q \in AFam(d) \X DFam(d) : ~DerivedTable[q].raises}} : d \in Dims}
QuadTable == Tabulate([q \in QuadKeys |-> QuadForm(q[1], q[2], q[3], q[4], q[5])])
QuadFormOf(X, mu, D, is1, is2) ==
    IF <<X, mu, D, is1, is2>> \in DOMAIN QuadTable THEN QuadTable[<<X, mu, D, is1, is2>>]
    ELSE QuadForm(X, mu, D, is1, is2)

\* Lines 148-150 and 115-117: -0.5 * (m_d + c_factor) for every row of X
LogLik(X, c, is1, is2, cf) == HalfNeg(QuadFormOf(X, c.mu, c.D, is1, is2), cf)

\* MFA._get_component_log_probs(X, k) on the dict c = self.components[k]: the
\* error raised (or NoErr), the dict as the call leaves it, and the returned
\* vector.  c is the stored dict itself, so keys set before an exception stay.
\* lines 130-150 on a cache miss, dv being the values derived from A and D
FillCache(c, X, dv) ==
    IF dv.raises
    THEN [err |-> "LinAlgError",
          c |-> [c EXCEPT !.inv_sigma1 = dv.inv_sigma1], ll |-> <<>>]
    ELSE [err |-> NoErr,
          c |-> [c EXCEPT !.inv_sigma1 = dv.inv_sigma1,
                          !.inv_sigma2 = dv.inv_sigma2,
                          !.c_factor = dv.c_factor],
          ll |-> LogLik(X, c, dv.inv_sigma1, dv.inv_sigma2, dv.c_factor[1])]

get_component_log_probs(c, X) ==
    IF Cols(X) # Rows(c.A)
    THEN [err |-> "AssertionError", c |-> c, ll |-> <<>>]
    ELSE IF CacheMiss(c)
    THEN FillCache(c, X, DerivedOf(c.A, c.D))
    ELSE [err |-> NoErr, c |-> c,
          ll |-> LogLik(X, c, c.inv_sigma1, c.inv_sigma2, c.c_factor[1])]

\* MFA._get_component_log_probs_task(task): everything is recomputed from
\* A and D; returns (task['comp_num'], np.log(c['pi']) - 0.5*(m_d + c_factor))
\* lines 101-117, dv being the values derived from A and D
TaskResult(task, dv) ==
    IF dv.raises
    THEN [err |-> "LinAlgError", comp_num |-> task.comp_num, ll |-> <<>>]
    ELSE [err |-> NoErr, comp_num |-> task.comp_num,
          ll |-> AddLogPi(task.c.pi,
                   LogLik(task.X, task.c, dv.inv_sigma1, dv.inv_sigma2,
                          dv.c_factor[1]))]

get_component_log_probs_task(task) ==
    IF Cols(task.X) # Rows(task.c.A)
    THEN [err |-> "AssertionError", comp_num |-> task.comp_num, ll |-> <<>>]
    ELSE TaskResult(task, DerivedOf(task.c.A, task.c.D))

\* The mapping self.components: a function from the ids 0..K-1 to components
\* (None and {} are both the empty mapping).
NumComponents(comps) == Cardinality(DOMAIN comps)
EmptyStore == [k \in {} |-> 0]
\* next(iter(self.components.values()))['A'].shape[0]
ModelDim(comps) == Rows(comps[0].A)

\* MFA._rearrange_input(samples). Without components line 163 raises
\* (AttributeError on None, StopIteration on {}): the error NoComponents.
Rearranged(samples, d) ==
    IF Len(samples.shape) = 2
    THEN IF samples.shape[2] = d
         THEN [err |-> NoErr,
               X |-> Reshape(samples.data, samples.shape[1], samples.shape[2])]
         ELSE [err |-> "AssertionError", X |-> <<>>]
    ELSE IF Size(samples.shape) = d
         THEN [err |-> NoErr, X |-> Reshape(samples.data, 1, d)]
         ELSE [err |-> "AssertionError", X |-> <<>>]
rearrange_input(comps, samples) ==
    IF NumComponents(comps) = 0 THEN [err |-> "NoComponents", X |-> <<>>]
    ELSE Rearranged(samples, ModelDim(comps))

\* batches of 1..MaxN rows of dimension d
Batches(d) == {MkInput(<<n, d>>) : n \in 1..MaxN}
\* what a caller evaluates on a model of dimension d: a batch or a single point
Points(d) == Batches(d) \cup {MkInput(<<d>>)}
\* The arrays tried against a model of dimension d: of rank 0 to 4, with d
\* elements or not, with d columns or not.
Inputs(d) ==
    Points(d)
    \cup {MkInput(<<1, d + 1>>), MkInput(<<d, 1>>), MkInput(<<d + 1>>),
          MkInput(<<>>), MkInput(<<1, 1, d>>), MkInput(<<1, d, 1>>),
          MkInput(<<d, 1, 1>>), MkInput(<<1, 1, d + 1>>), MkInput(<<1, 1, 1, d>>)}

\* ------------------------------------------------------------------- state
VARIABLES
    components,   \* self.components
    call          \* the call in progress, or the last call and what it returned

vars == <<components, call>>

NoInput == MkInput(<<>>)
\* op: the operation; pc: "done" once it has returned or raised; err: what it
\* raised; val: what it returned; the other fields are the locals of the
\* operation.
IdleCall ==
    [op |-> "init", pc |-> "done", err |-> NoErr, val |-> <<>>,
     k |-> 0, samples |-> NoInput, X |-> <<>>,
     out |-> <<>>, tasks |-> <<>>, results |-> <<>>, order |-> <<>>, idx |-> 0,
     writes |-> <<>>,
     n |-> 0, add_noise |-> FALSE, pi |-> <<>>, s_k |-> <<>>, drawn |-> <<>>]

Idle == call.pc = "done"
Ids == DOMAIN components

\* the float 0.0 of np.zeros, as a log-probability
ZeroValue == [w |-> ONE, m |-> Rat(0), twopi |-> 0, g |-> Rat(1)]
\* np.zeros([n, k]); column id c is position c + 1 of a row
Zeros(n, k) == Strict([r \in 1..n |-> Strict([c \in 1..k |-> ZeroValue])])
\* M[:, c] = v
SetCol(M, c, v) ==
    Strict([r \in 1..Len(M) |-> Strict([j \in 1..Len(M[r]) |->
        IF j = c + 1 THEN v[r] ELSE M[r][j]])])
GetCol(M, c) == Strict([r \in 1..Len(M) |-> M[r][c + 1]])

\* MFA(): no mixture yet
Init ==
    /\ components = EmptyStore
    /\ call = IdleCall

\* ---------------------------------------------------------------- the store
\* randomize_params and load replace the whole store and read nothing of it:
\* called on a store that holds a mixture they reach no state that they do not
\* reach from the empty store, so the model creates the mixture of an object
\* once, as the script at the end of the file does.
Unset == NumComponents(components) = 0

\* MFA.randomize_params(num_components, dim, isotropic_noise): with
\* isotropic_noise the call np.ones(size=[d]) raises TypeError in the first
\* iteration, after self.components = {}.
randomize_params(num_components, dim, s, isotropic_noise) ==
    /\ Idle /\ Unset
    /\ IF isotropic_noise
       THEN /\ components' = EmptyStore
            /\ call' = [IdleCall EXCEPT !.op = "randomize_params", !.err = "TypeError"]
       ELSE /\ components' = Mixture(num_components, dim,
                                     IF max_l < dim THEN max_l ELSE dim,
                                     s, "pos", PiFirst(num_components))
            /\ call' = [IdleCall EXCEPT !.op = "randomize_params"]

\* the pickle files that load may find
FilesOf(seeds) ==
    {Mixture(k, d, d, s, kind, PiFirst(k)) :
        k \in 1..MaxK, d \in 1..MaxDim, s \in seeds, kind \in DKinds}
Files == FilesOf({0})

\* MFA.load(file_name)
load(file) ==
    /\ Idle /\ Unset
    /\ components' = file
    /\ call' = [IdleCall EXCEPT !.op = "load"]

\* the component whose parameters a caller replaces
ReplaceTargets == {0}

\* A caller assigns components[k]['A'] = A (same shape): the dicts are plain
\* mutable dicts held by reference, and nothing else is touched.
ReplaceA(k, s) ==
    /\ Idle /\ k \in Ids
    /\ LET c == components[k]
           A == AMat(Rows(c.A), Cols(c.A), s)
       IN  /\ A # c.A
           /\ components' = [components EXCEPT ![k].A = A]
    /\ call' = [IdleCall EXCEPT !.op = "replace", !.k = k]

\* A caller assigns components[k]['D'] = D.
ReplaceD(k, s) ==
    /\ Idle /\ k \in Ids
    /\ LET c == components[k]
           D == DPos(Len(c.D), s)
       IN  /\ D # c.D
           /\ components' = [components EXCEPT ![k].D = D]
    /\ call' = [IdleCall EXCEPT !.op = "replace", !.k = k]

\* -------------------------------------------------------- serial evaluation
\* A call of MFA._get_component_log_probs(X, k) on a rank-2 array X.
ComponentCall(k, samples, X, r) ==
    /\ components' = [components EXCEPT ![k] = r.c]
    /\ call' = [IdleCall EXCEPT !.op = "component_log_probs", !.k = k,
                   !.samples = samples, !.X = X, !.err = r.err, !.val = r.ll]
EvalComponent(k, samples, X) ==
    ComponentCall(k, samples, X, get_component_log_probs(components[k], X))
CallComponentLogProbs(k, samples) ==
    /\ Idle /\ k \in Ids /\ Len(samples.shape) = 2
    /\ EvalComponent(k, samples, Reshape(samples.data, samples.shape[1], samples.shape[2]))

RECURSIVE SerialLoop(_, _, _, _)
\* one iteration, r being what _get_component_log_probs(X, k) gave
SerialStep(comps, X, out, k, r) ==
    IF r.err # NoErr
    THEN [err |-> r.err, comps |-> [comps EXCEPT ![k] = r.c], out |-> <<>>]
    ELSE SerialLoop([comps EXCEPT ![k] = r.c], X,
                    SetCol(out, k, AddLogPi(comps[k].pi, r.ll)), k + 1)
\* for k, c in self.components.items():
\*     components_log_probs[:, k] = np.log(c['pi']) + self._get_component_log_probs(X, k)
SerialLoop(comps, X, out, k) ==
    IF k = NumComponents(comps) THEN [err |-> NoErr, comps |-> comps, out |-> out]
    ELSE SerialStep(comps, X, out, k, get_component_log_probs(comps[k], X))

\* MFA._get_components_log_probabilities(samples): the error, the store as the
\* call leaves it, and the matrix returned
SerialOn(comps, ri) ==
    IF ri.err # NoErr THEN [err |-> ri.err, comps |-> comps, out |-> <<>>]
    ELSE SerialLoop(comps, ri.X, Zeros(Rows(ri.X), NumComponents(comps)), 0)
get_components_log_probabilities(comps, samples) ==
    SerialOn(comps, rearrange_input(comps, samples))

SerialCall(samples, r) ==
    /\ components' = r.comps
    /\ call' = [IdleCall EXCEPT !.op = "serial", !.samples = samples,
                   !.err = r.err, !.val = r.out]
CallSerial(samples) ==
    /\ Idle
    /\ SerialCall(samples, get_components_log_probabilities(components, samples))

\* ------------------------------------------------------ parallel evaluation
\* MFA._get_components_log_probabilities_multithreaded(samples), as steps on
\* the record of the call.
\* comonent_tasks: one task per id, in the order of range(len(self.components))
TasksOf(comps, X) ==
    [i \in DOMAIN comps |-> [comp_num |-> i, c |-> comps[i], X |-> X]]

Pending == [err |-> "pending", comp_num |-> 0, ll |-> <<>>]
Done(c, i) == \E p \in 1..Len(c.order) : c.order[p] = i
NumTasks(c) == Cardinality(DOMAIN c.tasks)
AllDone(c) == Len(c.order) = NumTasks(c)
Failed(c) == {i \in DOMAIN c.results : c.results[i].err \notin {NoErr, "pending"}}
\* the position (from 0) at which task i completed
ArrivalRank(order, i) == (CHOOSE p \in 1..Len(order) : order[p] = i) - 1

\* up to pool.map: the input is normalised, the matrix allocated and the tasks
\* handed to the pool
ParStartedOn(comps, samples, ri) ==
    IF ri.err # NoErr
    THEN [IdleCall EXCEPT !.op = "parallel", !.samples = samples, !.err = ri.err]
    ELSE [IdleCall EXCEPT !.op = "parallel", !.pc = "map", !.samples = samples,
             !.X = ri.X, !.out = Zeros(Rows(ri.X), NumComponents(comps)),
             !.tasks = TasksOf(comps, ri.X),
             !.results = [i \in DOMAIN comps |-> Pending]]
ParStarted(comps, samples) == ParStartedOn(comps, samples, rearrange_input(comps, samples))

\* The pool hands the tasks out in order to its PoolSize workers, so task i
\* runs only when fewer than PoolSize earlier tasks are unfinished; the tasks
\* finish in any order.
CanFinish(c, i) ==
    /\ c.op = "parallel" /\ c.pc = "map"
    /\ i \in DOMAIN c.tasks /\ ~Done(c, i)
    /\ Cardinality({j \in DOMAIN c.tasks : j < i /\ ~Done(c, j)}) < PoolSize

\* a worker finishes task i
TaskFinished(c, i) ==
    [c EXCEPT !.results[i] = get_component_log_probs_task(c.tasks[i]),
              !.order = Append(c.order, i)]

\* the call ends on a failure by returning the matrix as it is
PropagateFailureAsPartial(c) == [c EXCEPT !.pc = "done", !.val = c.out]

\* pool.map re-raises in the caller the first failure a worker reported, once
\* every task has finished: the call ends there and returns nothing
PropagateFailure(c) ==
    LET first == CHOOSE i \in Failed(c) :
                    \A j \in Failed(c) : ArrivalRank(c.order, i) <= ArrivalRank(c.order, j)
    IN  [c EXCEPT !.pc = "done", !.err = c.results[first].err]

\* pool.map returns: the list of results in task order, or the failure
MapReturned(c) ==
    IF Failed(c) # {} THEN PropagateFailure(c)
    ELSE [c EXCEPT !.pc = "merge", !.idx = 0]

\* the column of a result taken to be the position at which it arrived
MergeColumnByArrival(res, arrival) == arrival

\* the column a result is written to: its tag comp_num
MergeColumn(res, arrival) == res.comp_num

\* for comp_num, comp_ll in comp_results: components_log_probs[:, comp_num] = comp_ll
Merged(c) ==
    LET res == c.results[c.idx]
        col == MergeColumn(res, ArrivalRank(c.order, c.idx))
    IN  [c EXCEPT !.out = SetCol(c.out, col, res.ll),
                  !.writes = Append(c.writes, col),
                  !.idx = c.idx + 1]

\* return components_log_probs
Returned(c) == [c EXCEPT !.pc = "done", !.val = c.out]

ParStart(samples) ==
    /\ Idle
    /\ call' = ParStarted(components, samples)
    /\ UNCHANGED components

TaskDone(i) ==
    /\ CanFinish(call, i)
    /\ call' = TaskFinished(call, i)
    /\ UNCHANGED components

MapReturn ==
    /\ call.op = "parallel" /\ call.pc = "map" /\ AllDone(call)
    /\ call' = MapReturned(call)
    /\ UNCHANGED components

MergeStep ==
    /\ call.op = "parallel" /\ call.pc = "merge" /\ call.idx < NumTasks(call)
    /\ call' = Merged(call)
    /\ UNCHANGED components

ParReturn ==
    /\ call.op = "parallel" /\ call.pc = "merge" /\ call.idx = NumTasks(call)
    /\ call' = Returned(call)
    /\ UNCHANGED components

RECURSIVE RunParallel(_, _)
\* the whole call, the tasks finishing in the given order
RunParallel(c, order) ==
    IF c.pc = "done" THEN c
    ELSE IF c.pc = "map" /\ ~AllDone(c)
    THEN RunParallel(TaskFinished(c, order[Len(c.order) + 1]), order)
    ELSE IF c.pc = "map" THEN RunParallel(MapReturned(c), order)
    ELSE IF c.idx < NumTasks(c) THEN RunParallel(Merged(c), order)
    ELSE Returned(c)

\* the orders in which the tasks of ids S may finish (S has at most PoolSize
\* elements)
RECURSIVE Orders(_)
Orders(S) ==
    IF S = {} THEN {<<>>}
    ELSE UNION {{<<i>> \o o : o \in Orders(S \ {i})} : i \in S}

\* what the caller has of a call that returned: its locals are gone
Outcome(c) ==
    [IdleCall EXCEPT !.op = c.op, !.samples = c.samples, !.err = c.err, !.val = c.val]

\* a whole call of the parallel evaluation
ParallelCall(c) ==
    IF c.pc = "done" THEN call' = Outcome(c)
    ELSE \E order \in Orders(Ids) : call' = Outcome(RunParallel(c, order))
CallParallel(samples) ==
    /\ Idle
    /\ ParallelCall(ParStarted(components, samples))
    /\ UNCHANGED components

\* ------------------------------------------------------------------ sampling
\* MFA._draw_from_component(num_samples, c, add_noise), every entry of z_l and
\* of z_d being z. np.sqrt of a negative number is nan, returned with a
\* RuntimeWarning, and nan propagates through * and +=.
draw_from_component(num_samples, c, add_noise, z) ==
    Strict([r \in 1..num_samples |-> Strict([i \in 1..Rows(c.A) |->
        LET x == RAdd(RSum(Strict([j \in 1..Cols(c.A) |-> RMul(Rat(z), Rat(c.A[i][j]))])),
                      Rat(c.mu[i]))
        IN  IF add_noise THEN RAdd(x, RMul(Rat(z), Sqrt(c.D[i]))) ELSE x])])

\* the standard-normal draws
Zs == {0, 1}

\* pi = [c['pi'] for c in self.components.values()]: list index k is position k + 1
Weights(comps) == Strict([i \in 1..NumComponents(comps) |-> comps[i - 1].pi])

\* the last index of the largest weight
MaxCompLast(pi) ==
    CHOOSE i \in 0..(Len(pi) - 1) :
        /\ \A j \in 0..(Len(pi) - 1) : pi[j + 1] <= pi[i + 1]
        /\ \A j \in (i + 1)..(Len(pi) - 1) : pi[j + 1] < pi[i + 1]

\* pi.index(max(pi)): the first index of the largest weight
MaxComp(pi) ==
    CHOOSE i \in 0..(Len(pi) - 1) :
        /\ \A j \in 0..(Len(pi) - 1) : pi[j + 1] <= pi[i + 1]
        /\ \A j \in 0..(i - 1) : pi[j + 1] < pi[i + 1]

\* abs(sp - 1.0) < 1e-5
WithinEps(sp) == Abs(sp - ONE) * EpsInv < ONE

\* sp = sum(pi); if not sp == 1.0: assert ...; pi[max_comp] -= (sp - 1.0)
FixWeights(pi) ==
    LET sp == ISum(pi)
    IN  IF sp = ONE THEN [err |-> NoErr, pi |-> pi]
        ELSE IF ~WithinEps(sp) THEN [err |-> "AssertionError", pi |-> pi]
        ELSE [err |-> NoErr, pi |-> [pi EXCEPT ![MaxComp(pi) + 1] = @ - (sp - ONE)]]

\* np.random.choice(len(pi), p=pi, size=num_samples): any assignment of the
\* rows to components of positive probability
Choices(pi, num_samples) ==
    [1..num_samples -> {k \in 0..(Len(pi) - 1) : pi[k + 1] > 0}]

\* a mask that also takes the rows of the components still to come
MaskFrom(s_k, k) == {r \in 1..Len(s_k) : s_k[r] >= k}

\* s_k_i = (s_k == k): the rows of the mask
Mask(s_k, k) == {r \in 1..Len(s_k) : s_k[r] = k}

\* A call of MFA._draw_from_component on component k.
DrawFromComponent(k, num_samples, add_noise, z) ==
    /\ Idle /\ k \in Ids
    /\ call' = [IdleCall EXCEPT !.op = "draw_from_component", !.k = k,
                   !.n = num_samples, !.add_noise = add_noise,
                   !.val = draw_from_component(num_samples, components[k], add_noise, z)]
    /\ UNCHANGED components

\* MFA.draw_samples(num_samples, add_noise) up to the loop: the weights are
\* fixed, the output allocated and the assignments drawn.
DrawStart(num_samples, add_noise) ==
    /\ Idle /\ ~Unset
    /\ LET w == FixWeights(Weights(components))
           start == [IdleCall EXCEPT !.op = "draw_samples", !.n = num_samples,
                        !.add_noise = add_noise, !.pi = w.pi, !.err = w.err]
       IN  IF w.err # NoErr THEN call' = start
           ELSE \E s_k \in Choices(w.pi, num_samples) :
                   call' = [start EXCEPT
                       !.pc = "loop", !.idx = 0, !.s_k = Strict(s_k),
                       !.out = Strict([r \in 1..num_samples |->
                                   Strict([i \in 1..ModelDim(components) |-> Rat(0)])]),
                       !.writes = Strict([r \in 1..num_samples |-> <<>>])]
    /\ UNCHANGED components

\* One iteration of the loop over self.components.items():
\* samples[s_k_i, :] = MFA._draw_from_component(sum(s_k_i), c, add_noise)
DrawLoopStep(z) ==
    /\ call.op = "draw_samples" /\ call.pc = "loop"
    /\ call.idx < NumComponents(components)
    /\ LET k == call.idx
           rows == Mask(call.s_k, k)
           X == draw_from_component(Cardinality(rows), components[k], call.add_noise, z)
       IN  call' = [call EXCEPT
               !.out = Strict([r \in 1..call.n |->
                          IF r \in rows THEN X[Cardinality({q \in rows : q <= r})]
                          ELSE call.out[r]]),
               !.writes = Strict([r \in 1..call.n |->
                          IF r \in rows THEN Append(call.writes[r], k)
                          ELSE call.writes[r]]),
               !.drawn = Append(call.drawn, Cardinality(rows)),
               !.idx = k + 1]
    /\ UNCHANGED components

\* return samples
DrawReturn ==
    /\ call.op = "draw_samples" /\ call.pc = "loop"
    /\ call.idx = NumComponents(components)
    /\ call' = [call EXCEPT !.pc = "done", !.val = call.out]
    /\ UNCHANGED components

\* A call of MFA._rearrange_input(samples).
Rearrange(samples) ==
    /\ Idle
    /\ LET r == rearrange_input(components, samples)
       IN  call' = [IdleCall EXCEPT !.op = "rearrange_input", !.samples = samples,
                       !.err = r.err, !.val = r.X]
    /\ UNCHANGED components

\* ------------------------------------------------------------ specifications
CurInputs == IF Unset THEN {NoInput} ELSE Points(ModelDim(components))
BatchInputs == {x \in CurInputs : Len(x.shape) = 2}

\* The store and the evaluations, each as one call.
Next ==
    \/ \E k \in 1..MaxK, d \in 1..MaxDim, s \in Seeds, iso \in BOOLEAN :
          randomize_params(k, d, s, iso)
    \/ \E f \in Files : load(f)
    \/ \E k \in ReplaceTargets, s \in Seeds : ReplaceA(k, s)
    \/ \E k \in ReplaceTargets, s \in Seeds : ReplaceD(k, s)
    \/ \E k \in Ids, x \in BatchInputs : CallComponentLogProbs(k, x)
    \/ \E x \in CurInputs : CallSerial(x)
    \/ \E x \in CurInputs : CallParallel(x)

Spec == Init /\ [][Next]_vars

\* The parallel evaluation step by step, on a mixture that load or
\* randomize_params created.
InitPar ==
    /\ components \in FilesOf(Seeds)
    /\ call = IdleCall

NextPar ==
    \/ \E x \in CurInputs : ParStart(x)
    \/ \E i \in DOMAIN call.tasks : TaskDone(i)
    \/ MapReturn
    \/ MergeStep
    \/ ParReturn

SpecPar == InitPar /\ [][NextPar]_vars

\* The input normalisation alone, on a mixture that load created.
NextInput ==
    \E x \in Inputs(ModelDim(components)) : Rearrange(x)

SpecInput == InitPar /\ [][NextInput]_vars

\* One component of strictly positive variances, of any rank up to its
\* dimension, evaluated as the likelihood functions evaluate it.
InitPure ==
    /\ components \in UNION {{[k \in {0} |-> Component(A, DPos(d, s), mu, ONE)] :
                                 A \in AFam(d), s \in Seeds, mu \in MuFam(d)} : d \in Dims}
    /\ call = IdleCall

NextPure ==
    \/ \E x \in BatchInputs : CallComponentLogProbs(0, x)
    \/ \E x \in CurInputs : CallSerial(x)

SpecPure == InitPure /\ [][NextPure]_vars

\* Sampling. The weights of a mixture sum to 1.0 or deviate from it, the
\* largest weight being the first, the last, or two equal ones.
Profiles == {"first", "last", "tie"}
Devs == {-12, -10, -2, 0, 2, 10, 12}
PiOf(K, profile, dev) ==
    [k \in 0..(K - 1) |->
        IF K = 1 THEN ONE + dev
        ELSE IF profile = "first"
        THEN (IF k = 0 THEN ONE - (K - 1) * 100000
              ELSE IF k = K - 1 THEN 100000 + dev ELSE 100000)
        ELSE IF profile = "last"
        THEN (IF k = K - 1 THEN ONE + dev - (K - 1) * 100000 ELSE 100000)
        ELSE (IF k <= 1 THEN (ONE + dev - (K - 2) * 100000) \div 2 ELSE 100000)]

SampleStores ==
    Files \cup {Mixture(k, 1, 1, 0, "pos", PiOf(k, p, dev)) :
                   k \in 1..MaxK, p \in Profiles, dev \in Devs}

InitSample ==
    /\ components \in SampleStores
    /\ call = IdleCall

NextSample ==
    \/ \E k \in Ids, n \in 0..MaxN, noise \in BOOLEAN, z \in Zs :
          DrawFromComponent(k, n, noise, z)
    \/ \E n \in 0..MaxN, noise \in BOOLEAN : DrawStart(n, noise)
    \/ \E z \in Zs : DrawLoopStep(z)
    \/ DrawReturn

SpecSample == InitSample /\ [][NextSample]_vars

\* -------------------------------------------------------------- properties
\* C1: whenever the parallel evaluation has returned a matrix, the serial
\* evaluation of the same input on the store as it then is returns the same
\* matrix, column by column, whatever the caches of the components hold.
C1_ParallelEqualsSerial ==
    (call.op = "parallel" /\ call.pc = "done" /\ call.err = NoErr) =>
        LET r == get_components_log_probabilities(components, call.samples)
        IN  r.err = NoErr /\ call.val = r.out

\* C2: in the parallel evaluation every task carries its column index, the
\* merge starts only after all tasks have finished, no column is written
\* twice, and when the call returns every column 0..K-1 has been written
\* exactly once and column k holds the result computed from component k,
\* whatever the order in which the tasks finished.
C2_MergeByTag ==
    call.op = "parallel" =>
        /\ \A i \in DOMAIN call.tasks : call.tasks[i].comp_num = i
        /\ (call.pc = "merge" \/ Len(call.writes) > 0) => AllDone(call)
        /\ \A p, q \in 1..Len(call.writes) : p # q => call.writes[p] # call.writes[q]
        /\ (call.pc = "done" /\ call.err = NoErr) =>
              /\ Len(call.writes) = NumComponents(components)
              /\ {call.writes[p] : p \in 1..Len(call.writes)} = Ids
              /\ \A k \in Ids :
                    GetCol(call.val, k) =
                       get_component_log_probs_task(
                           [comp_num |-> k, c |-> components[k], X |-> call.X]).ll

\* a call of K >= 2 tasks has returned whose first task did not finish first
C2_Witness ==
    /\ call.op = "parallel" /\ call.pc = "done" /\ call.err = NoErr
    /\ NumComponents(components) >= 2
    /\ call.order[1] # 0

\* C3: draw_samples fails when the sum of the weights deviates from 1.0 by
\* more than 1e-5 and produces nothing; otherwise it subtracts the whole
\* deviation from the first of the largest weights, leaves every other weight
\* as it is, and the weights handed to the sampler sum to 1.0.
C3_WeightsNormalised ==
    call.op = "draw_samples" =>
        LET pi0 == Weights(components)
            dev == ISum(pi0) - ONE
        IN  IF Abs(dev) * EpsInv > ONE
            THEN call.err = "AssertionError" /\ call.pc = "done" /\ call.val = <<>>
            ELSE /\ call.err = NoErr
                 /\ \E m \in 1..Len(pi0) :
                       /\ \A j \in 1..Len(pi0) : pi0[j] <= pi0[m]
                       /\ \A j \in 1..(m - 1) : pi0[j] < pi0[m]
                       /\ call.pi = [pi0 EXCEPT ![m] = @ - dev]
                 /\ ISum(call.pi) = ONE

\* draw_samples has returned on weights whose two largest are equal and whose
\* sum is not 1.0
C3_Witness ==
    /\ call.op = "draw_samples" /\ call.pc = "done" /\ call.err = NoErr
    /\ NumComponents(components) >= 2
    /\ components[0].pi = components[1].pi
    /\ ISum(Weights(components)) # ONE
    /\ call.pi[1] # components[0].pi

\* C4: _rearrange_input accepts a rank-2 array exactly when it has d columns,
\* failing otherwise, and returns it unchanged; accepts a rank-1 array of
\* length d as a 1 x d batch; and rejects an array of any other rank, also
\* when it has d elements.
C4_RearrangeInput ==
    call.op = "rearrange_input" =>
        LET sh == call.samples.shape
            d == ModelDim(components)
        IN  /\ Len(sh) = 2 =>
                 /\ call.err = NoErr <=> sh[2] = d
                 /\ sh[2] # d => call.err = "AssertionError"
                 /\ sh[2] = d => call.val = Reshape(call.samples.data, sh[1], d)
            /\ (Len(sh) = 1 /\ sh[1] = d) =>
                 call.err = NoErr /\ call.val = Reshape(call.samples.data, 1, d)
            /\ Len(sh) \notin {1, 2} => call.err # NoErr

\* C5: a component that carries a cache holds the values derived from its
\* current A and D.
C5_CacheValid ==
    \A k \in Ids :
        LET c == components[k]
            dv == DerivedOf(c.A, c.D)
        IN  c.c_factor # Absent =>
               /\ c.inv_sigma1 = dv.inv_sigma1
               /\ c.inv_sigma2 = dv.inv_sigma2
               /\ c.c_factor = dv.c_factor

\* C6: for a component of strictly positive variances, the value
\* _get_component_log_probs returns for every row x is the Gaussian
\* log-density -0.5 * (m + d*log(2 pi) + log det Sigma) formed directly from
\* Sigma = A A^T + diag(D), with m = (x - mu)^T Sigma^-1 (x - mu).
C6_WoodburyEqualsDirect ==
    (call.op = "component_log_probs" /\ call.err = NoErr) =>
        LET c == components[call.k]
            d == Len(c.D)
            A == RatMat(c.A)
            AAt == MatMul(A, Transpose(A))
            Sigma == Strict([i \in 1..d |-> Strict([j \in 1..d |->
                        IF i = j THEN RAdd(AAt[i][j], Rat(c.D[i])) ELSE AAt[i][j]])])
            Xc == Center(call.X, c.mu)
            Q == MatMul(Xc, MatInv(Sigma))
        IN  /\ Len(call.val) = Rows(call.X)
            /\ \A r \in 1..Rows(call.X) :
                  call.val[r] =
                     [w |-> ONE,
                      m |-> RSum(Strict([i \in 1..d |-> RMul(Q[r][i], Xc[r][i])])),
                      twopi |-> d,
                      g |-> Det(Sigma)]

\* a component of rank lower than its dimension was evaluated on several rows
C6_Witness ==
    /\ call.op = "component_log_probs" /\ call.err = NoErr
    /\ Cols(components[call.k].A) < Rows(components[call.k].A)
    /\ Rows(call.X) >= 2

\* C7: _draw_from_component with add_noise on a component with a negative
\* variance raises and returns no samples.
C7_NegativeVarianceRaises ==
    (/\ call.op = "draw_from_component" /\ call.add_noise /\ call.n >= 1
     /\ \E i \in 1..Len(components[call.k].D) : components[call.k].D[i] < 0) =>
        call.err # NoErr /\ call.val = <<>>

\* C8: once a task of the parallel evaluation has failed, nothing is merged,
\* and the call ends with an error and returns no matrix.
C8_FailureFailsCall ==
    (call.op = "parallel" /\ Failed(call) # {}) =>
        /\ call.pc # "merge"
        /\ Len(call.writes) = 0
        /\ call.pc = "done" => (call.err # NoErr /\ call.val = <<>>)

\* a call has ended in which one task failed and another computed its column
C8_Witness ==
    /\ call.op = "parallel" /\ call.pc = "done"
    /\ Failed(call) # {}
    /\ \E i \in DOMAIN call.results : call.results[i].err = NoErr

\* C9: in draw_samples every component the loop has passed drew as many
\* samples as rows are assigned to it and wrote exactly those rows; the other
\* rows are not yet written; when the call returns every row has been written
\* exactly once, by the component it is assigned to, and holds a sample of
\* that component.
C9_RowsWrittenOnce ==
    (call.op = "draw_samples" /\ call.err = NoErr) =>
        /\ Len(call.drawn) = call.idx
        /\ \A k \in 0..(call.idx - 1) :
              call.drawn[k + 1] = Cardinality({r \in 1..call.n : call.s_k[r] = k})
        /\ \A r \in 1..call.n :
              call.writes[r] = IF call.s_k[r] < call.idx THEN <<call.s_k[r]>> ELSE <<>>
        /\ call.pc = "done" =>
              /\ call.idx = NumComponents(components)
              /\ Len(call.val) = call.n
              /\ \A r \in 1..call.n :
                    /\ call.writes[r] = <<call.s_k[r]>>
                    /\ \E z \in Zs :
                          call.val[r] =
                             draw_from_component(1, components[call.s_k[r]],
                                                 call.add_noise, z)[1]

\* draw_samples has returned rows that are not grouped by component
C9_Witness ==
    /\ call.op = "draw_samples" /\ call.pc = "done" /\ call.err = NoErr
    /\ call.n >= 2
    /\ call.s_k[1] > call.s_k[2]

\* C10: a serial evaluation leaves the ids, and A, D, mu and pi of every
\* component, as they are; it leaves a component that carries a cache as it
\* is; an evaluation of component k leaves every other component as it is;
\* and a component it changes has gained cache fields.
C10_SerialFrame ==
    [][call'.op \in {"component_log_probs", "serial"} =>
          /\ DOMAIN components' = DOMAIN components
          /\ \A j \in DOMAIN components :
                LET c == components[j]
                    c2 == components'[j]
                IN  /\ c2.A = c.A /\ c2.D = c.D /\ c2.mu = c.mu /\ c2.pi = c.pi
                    /\ c.c_factor # Absent => c2 = c
                    /\ (call'.op = "component_log_probs" /\ j # call'.k) => c2 = c
                    /\ c2 # c => (c.inv_sigma1 = Absent \/ c.c_factor = Absent)
                                 /\ c2.inv_sigma1 # Absent]_vars

\* component k, already cached, was evaluated while another component has no
\* cache yet
C10_Witness ==
    /\ call.op = "component_log_probs" /\ call.err = NoErr
    /\ components[call.k].c_factor # Absent
    /\ \E j \in Ids : components[j].c_factor = Absent

============================================================================
